---- MODULE Spec2Model ----
(***************************************************************************)
(* Collaborative session coordinator of server/src/server.ts: the user     *)
(* registry (userSocketMap), the per-room file lists (filesByRoom), the    *)
(* ownership and permission maps (fileOwners, filePermissions) and the     *)
(* socket.io handlers that read and write them.  Node runs each handler to *)
(* completion on one thread, so each handler is one atomic action.         *)
(*                                                                         *)
(* The socket.io adapter is modelled by sioRooms (the rooms a socket has   *)
(* joined with socket.join) and connected.  Every socket is also alone in  *)
(* the room named by its own id; room ids chosen by clients are taken from *)
(* a namespace disjoint from socket ids.  Every event carries a payload     *)
(* object, as the clients of the repository send it.                       *)
(*                                                                         *)
(* Spec        the handlers of server.ts, one action per handler.          *)
(* SpecSteps   the JOIN_REQUEST handler of server.ts statement by          *)
(*             statement, with the requests of several sockets in flight.  *)
(* SpecVariant the server copy kept in server/src/types/socket.ts.         *)
(* SpecWire    the handlers of server.ts that emit to rooms, with the      *)
(*             events followed to the clients that receive them.           *)
(* SpecVoting  the BlockchainVoting contract of unnamed/part_001, one      *)
(*             action per public function; it shares nothing with the      *)
(*             server.                                                     *)
(***************************************************************************)
EXTENDS Integers, Sequences, FiniteSets, TLC

\* ---------------------------------------------------------------- bounds
\* Cap on the length of userSocketMap (the registry itself is unbounded).
MaxUsers == 2

\* ------------------------------------------------------- input domains
\* BlockchainVoting: the accounts; Deployer sends the constructor.
Addresses == {"0xA", "0xB", "0xC"}
Deployer == "0xA"
\* BlockchainVoting: candidateNames of the constructor, and the candidate
\* indexes a vote may carry, one of them past the end.
CandidateNames == <<"yes", "no">>
CandidateIndexes == 0..Len(CandidateNames)
\* socket.id of the connections; NoSocket is no connection.
Sockets == {"s1", "s2"}
NoSocket == ""
\* JS undefined in a string-typed slot.
NoValue == "<undefined>"
Usernames == {"alice", "bob"}
\* username of a join payload (NoValue would take the `user-...` default).
UsernameInputs == Usernames
FileIds == {"f1"}
Contents == {"c1", "c2"}
\* roomId of a join payload, as a character sequence so that trim() is
\* computed: missing, blank, plain, and padded.
NoRoom == <<>>
RoomInputs == {NoRoom, <<" ">>, <<"a">>, <<" ", "b">>}
CursorInputs == {7}

\* ---------------------------------------------------------- JS helpers
Falsy(v) == v = NoValue \/ v = ""

RECURSIVE TrimStart(_)
TrimStart(s) ==
  IF s # <<>> /\ Head(s) = " " THEN TrimStart(Tail(s)) ELSE s

RECURSIVE TrimEnd(_)
TrimEnd(s) ==
  IF s # <<>> /\ s[Len(s)] = " " THEN TrimEnd(SubSeq(s, 1, Len(s) - 1)) ELSE s

\* Mutant: the room id is taken as sent.
TrimNone(s) == s

\* String(payload?.roomId || "").trim()
Trim(s) == TrimEnd(TrimStart(s))

\* The room ids a join can install.
RoomIds == {Trim(r) : r \in RoomInputs} \ {NoRoom}

\* `user-${socket.id.slice(0, 6)}`
DefaultUsername(s) == "user-" \o s

\* payload?.username || `user-...`
ResolveUsername(s, u) == IF Falsy(u) THEN DefaultUsername(s) ELSE u

\* !!v of a JS value written "true", "false" or "undefined"
ToBool(v) == v = "true"

\* null / undefined as an object-typed value (a missing user, an empty payload).
Null == [null |-> TRUE]

\* obj[k] = v and delete obj[k] on a Record<string, ...>
Put(m, k, v) == [x \in DOMAIN m \cup {k} |-> IF x = k THEN v ELSE m[x]]
\* Mutant: deleting one key empties the object.
DelAll(m, k) == <<>>
Del(m, k) == [x \in DOMAIN m \ {k} |-> m[x]]

VARIABLES
  userSocketMap,    \* User[]: the registry, in insertion order
  filesByRoom,      \* roomId -> list of files
  fileOwners,       \* fileId -> owner username
  filePermissions,  \* fileId -> (username -> {canEdit, canDelete})
  sioRooms,         \* socket -> rooms joined through socket.join
  connected,        \* socket -> the transport still dispatches its events
  req,              \* the event handled by the last step
  out,              \* the emits of the last step, in order, with recipients
  acks,             \* the acknowledgment calls of the last step, in order
  joins,            \* socket -> its join-request, statement by statement
  issued,           \* number of events handed to the transport so far
  wire,             \* socket -> the events on their way to it, in order
  delivered,        \* socket -> the events its client has received, in order
  admin,            \* BlockchainVoting: address public admin
  voters,           \* BlockchainVoting: address -> Voter {registered, voted}
  candidates,       \* BlockchainVoting: index -> Candidate {name, voteCount}
  electionActive,   \* BlockchainVoting: bool public electionActive
  call              \* BlockchainVoting: the last transaction and how it ended

\* The connections' transport.
transport == <<issued, wire, delivered>>

\* The storage of the BlockchainVoting contract, and its last transaction.
contract == <<admin, voters, candidates, electionActive, call>>

\* The state of the collaboration server.
server == <<userSocketMap, filesByRoom, fileOwners, filePermissions,
            sioRooms, connected, req, out, acks, joins, issued, wire, delivered>>

vars == <<userSocketMap, filesByRoom, fileOwners, filePermissions,
          sioRooms, connected, req, out, acks, joins, issued, wire, delivered,
          admin, voters, candidates, electionActive, call>>

\* ----------------------------------------------------- registry lookups
IndexOfSocket(socketId) ==
  LET idx == {i \in 1..Len(userSocketMap) : userSocketMap[i].socketId = socketId}
  IN IF idx = {} THEN 0 ELSE CHOOSE i \in idx : \A j \in idx : i <= j

getUsersInRoom(roomId) ==
  LET InRoom(u) == u.roomId = roomId IN SelectSeq(userSocketMap, InRoom)

HasUser(socketId) == IndexOfSocket(socketId) # 0

getUserBySocketId(socketId) ==
  IF HasUser(socketId) THEN userSocketMap[IndexOfSocket(socketId)] ELSE Null

getRoomId(socketId) ==
  IF HasUser(socketId) THEN userSocketMap[IndexOfSocket(socketId)].roomId ELSE NoRoom

\* filesByRoom[roomId].  A list that was never installed is held as the empty
\* list: join and create install [] before they read it, and update and
\* delete read it only for a caller whose join installed it.
FilesOf(roomId) == filesByRoom[roomId]

\* ------------------------------------------------------ broadcast router
\* Mutant: the sender is not excluded (io.in instead of socket.broadcast).
BroadcastRcptsWithSender(rooms, s, roomId) == {t \in Sockets : roomId \in rooms[t]}

\* socket.broadcast.to(roomId): the room's sockets except the sender.
BroadcastRcpts(rooms, s, roomId) == {t \in Sockets : roomId \in rooms[t]} \ {s}

\* io.in(roomId): every socket of the room.
InRcpts(roomId) == {t \in Sockets : roomId \in sioRooms[t]}

\* Mutant: a direct emit goes to every connection (io.emit).
ToRcptsEveryone(socketId) == {t \in Sockets : connected[t]}

\* io.to(socketId): the socket's own room.
ToRcpts(socketId) == {t \in Sockets : t = socketId /\ connected[t]}

EmitBroadcast(rooms, s, roomId, ev, payload) ==
  [mode |-> "broadcast", room |-> roomId, to |-> NoSocket, ev |-> ev,
   payload |-> payload, rcpts |-> BroadcastRcpts(rooms, s, roomId)]

EmitIn(roomId, ev, payload) ==
  [mode |-> "in", room |-> roomId, to |-> NoSocket, ev |-> ev,
   payload |-> payload, rcpts |-> InRcpts(roomId)]

EmitTo(socketId, ev, payload) ==
  [mode |-> "to", room |-> NoRoom, to |-> socketId, ev |-> ev,
   payload |-> payload, rcpts |-> ToRcpts(socketId)]

\* The event being handled: its name, its socket and its payload.
Request(op, s, hasAck, roomId, username, fileId, target, arg) ==
  [op |-> op, socket |-> s, hasAck |-> hasAck, roomId |-> roomId,
   username |-> username, fileId |-> fileId, target |-> target, arg |-> arg]

\* Mutant: the continuation is called again on the way out.
AckTwice(hasAck, res) == IF hasAck THEN <<res, res>> ELSE <<>>

\* if (typeof ack === "function") ack(res)
Ack(hasAck, res) == IF hasAck THEN <<res>> ELSE <<>>

NoRequest == Request("none", NoSocket, FALSE, NoRoom, "", "", "", Null)

\* A join-request on its way: where it is (pc), its payload, the handler's
\* locals roomId and username, and what the handler has acknowledged and emitted.
JoinCall(pc, rawRoom, rawName, hasAck, roomId, username, acked, emitted) ==
  [pc |-> pc, rawRoom |-> rawRoom, rawName |-> rawName, hasAck |-> hasAck,
   roomId |-> roomId, username |-> username, acks |-> acked, out |-> emitted]

NoCall == JoinCall("none", NoRoom, "", FALSE, NoRoom, "", <<>>, <<>>)

\* The event loop is between two events: no handler is running.
Idle == req.op = "none"

\* BlockchainVoting: a transaction, by function, sender and argument, and
\* whether it went through (a require that fails reverts it).
Call(fn, sender, arg, ok) == [fn |-> fn, sender |-> sender, arg |-> arg, ok |-> ok]

\* constructor(candidateNames): admin = msg.sender, one candidate per name.
Constructor(sender, candidateNames) ==
  /\ admin = sender
  /\ candidates = [i \in 0..(Len(candidateNames) - 1) |->
                     [name |-> candidateNames[i + 1], voteCount |-> 0]]
  /\ voters = [a \in Addresses |-> [registered |-> FALSE, voted |-> FALSE]]
  /\ electionActive = FALSE
  /\ call = Call("constructor", sender, candidateNames, TRUE)

Init ==
  /\ userSocketMap = <<>>
  /\ filesByRoom = [r \in RoomIds |-> <<>>]
  /\ fileOwners = <<>>
  /\ filePermissions = <<>>
  /\ sioRooms = [s \in Sockets |-> {}]
  /\ connected = [s \in Sockets |-> TRUE]
  /\ req = NoRequest
  /\ out = <<>>
  /\ acks = <<>>
  /\ joins = [s \in Sockets |-> NoCall]
  /\ issued = 0
  /\ wire = [s \in Sockets |-> <<>>]
  /\ delivered = [s \in Sockets |-> <<>>]
  /\ Constructor(Deployer, CandidateNames)

\* ------------------------------------------------------------- JOIN_REQUEST
NewUser(s, roomId, username) ==
  [username |-> username, roomId |-> roomId, status |-> "online",
   cursorPosition |-> 0, typing |-> FALSE, socketId |-> s,
   currentFile |-> NoValue]

\* Mutant: the scan of the registry skips its first entry.
UsernameExistsSkipFirst(roomId, username) ==
  \E i \in 2..Len(userSocketMap) :
    userSocketMap[i].roomId = roomId /\ userSocketMap[i].username = username

\* getUsersInRoom(roomId).some((u) => u.username === username)
UsernameExists(roomId, username) ==
  \E i \in 1..Len(userSocketMap) :
    userSocketMap[i].roomId = roomId /\ userSocketMap[i].username = username

JoinRequest(s, rawRoom, rawName, hasAck) ==
  LET roomId == Trim(rawRoom)
      username == ResolveUsername(s, rawName)
      newUser == NewUser(s, roomId, username)
  IN
  /\ Idle /\ connected[s]
  /\ UNCHANGED <<joins, transport, contract>>
  /\ req' = Request("join-request", s, hasAck, roomId, username, "", "", rawRoom)
  /\ IF roomId = <<>> THEN
       /\ acks' = Ack(hasAck, [ok |-> FALSE, reason |-> "invalid-room-id"])
       /\ out' = <<>>
       /\ UNCHANGED <<userSocketMap, filesByRoom, sioRooms>>
     ELSE IF UsernameExists(roomId, username) THEN
       /\ out' = <<EmitTo(s, "username-exists", Null)>>
       /\ acks' = Ack(hasAck, [ok |-> FALSE, reason |-> "username-exists"])
       /\ UNCHANGED <<userSocketMap, filesByRoom, sioRooms>>
     ELSE
       /\ Len(userSocketMap) < MaxUsers
       /\ userSocketMap' = Append(userSocketMap, newUser)
       /\ sioRooms' = [sioRooms EXCEPT ![s] = @ \cup {roomId}]
       /\ UNCHANGED filesByRoom
       /\ LET users == SelectSeq(userSocketMap', LAMBDA u : u.roomId = roomId)
              files == FilesOf(roomId)
          IN
          /\ out' = << EmitBroadcast(sioRooms', s, roomId, "user-joined",
                                     [user |-> newUser]),
                       EmitTo(s, "join-accepted",
                              [user |-> newUser, users |-> users, files |-> files]) >>
          /\ acks' = Ack(hasAck, [ok |-> TRUE, user |-> newUser,
                                  users |-> users, files |-> files])
  /\ UNCHANGED <<fileOwners, filePermissions, connected>>

\* ------------------------------------------------------------ disconnecting
\* Mutant: only the user the handler looked up is removed.
RemoveFirstUserOfSocket(s) ==
  LET k == IndexOfSocket(s)
  IN SubSeq(userSocketMap, 1, k - 1) \o SubSeq(userSocketMap, k + 1, Len(userSocketMap))

\* Mutant: the registry keeps the users of the leaving connection.
RemoveNoUser(s) == userSocketMap

\* userSocketMap.filter((u) => u.socketId !== socket.id)
RemoveSocket(s) == SelectSeq(userSocketMap, LAMBDA u : u.socketId # s)

\* The handler runs while the socket is still in its rooms; socket.io then
\* takes the socket out of every room and dispatches nothing more from it.
DisconnectingRegistry(s) ==
  /\ Idle /\ connected[s]
  /\ UNCHANGED <<joins, transport, contract>>
  /\ req' = Request("disconnecting", s, FALSE, getRoomId(s), "", "", "", Null)
  /\ IF ~HasUser(s) THEN
       /\ out' = <<>>
       /\ UNCHANGED userSocketMap
     ELSE
       /\ out' = <<EmitBroadcast(sioRooms, s, getRoomId(s), "user-disconnected",
                                 [user |-> getUserBySocketId(s)])>>
       /\ userSocketMap' = RemoveSocket(s)
  /\ acks' = <<>>
  /\ connected' = [connected EXCEPT ![s] = FALSE]
  /\ sioRooms' = [sioRooms EXCEPT ![s] = {}]

\* Mutant: the leaving user's ownership records and permission entries are dropped.
DisconnectingDropsOwnership(s) ==
  LET name == IF HasUser(s) THEN getUserBySocketId(s).username ELSE NoValue
      kept == {f \in DOMAIN fileOwners : fileOwners[f] # name}
  IN
  /\ DisconnectingRegistry(s)
  /\ fileOwners' = [f \in kept |-> fileOwners[f]]
  /\ filePermissions' = [f \in DOMAIN filePermissions \cap kept |-> filePermissions[f]]
  /\ UNCHANGED filesByRoom

Disconnecting(s) ==
  /\ DisconnectingRegistry(s)
  /\ UNCHANGED <<filesByRoom, fileOwners, filePermissions>>

\* ------------------------------------------------- ownership + permissions
\* fileOwners[fileId] = username
SetOwnerOwners(fileId, username) == Put(fileOwners, fileId, username)

PermsOf(fileId) ==
  IF fileId \in DOMAIN filePermissions THEN filePermissions[fileId] ELSE <<>>

\* Mutant: the creator is given the edit right only.
SetOwnerPermissionsEditOnly(fileId, username) ==
  Put(filePermissions, fileId,
      Put(PermsOf(fileId), username, [canEdit |-> TRUE, canDelete |-> FALSE]))

\* filePermissions[fileId][username] = { canEdit: true, canDelete: true }
SetOwnerPermissions(fileId, username) ==
  Put(filePermissions, fileId,
      Put(PermsOf(fileId), username, [canEdit |-> TRUE, canDelete |-> TRUE]))

HasOwner(fileId) == fileId \in DOMAIN fileOwners

\* Mutant: any joined caller passes once the file has an owner.
isOwnerAnyUser(s, fileId) == HasUser(s) /\ fileId \in DOMAIN fileOwners

\* Mutant: the caller is not resolved; a file with an owner is enough.
isOwnerUnresolved(s, fileId) == HasOwner(fileId)

isOwner(s, fileId) ==
  /\ HasUser(s)
  /\ HasOwner(fileId)
  /\ fileOwners[fileId] = getUserBySocketId(s).username

\* !!filePermissions[fileId]?.[username]?.canEdit
EntryCanEdit(fileId, username) ==
  /\ username \in DOMAIN PermsOf(fileId)
  /\ PermsOf(fileId)[username].canEdit

EntryCanDelete(fileId, username) ==
  /\ username \in DOMAIN PermsOf(fileId)
  /\ PermsOf(fileId)[username].canDelete

\* Mutant: any joined caller may edit.
hasEditPermissionAnyUser(s, fileId) == HasUser(s)

hasEditPermission(s, fileId) ==
  HasUser(s) /\ EntryCanEdit(fileId, getUserBySocketId(s).username)

hasDeletePermission(s, fileId) ==
  HasUser(s) /\ EntryCanDelete(fileId, getUserBySocketId(s).username)

\* Mutant: when no user has the name, the first user of the registry is taken.
FindByUsernameOrFirst(username) ==
  LET idx == {i \in 1..Len(userSocketMap) : userSocketMap[i].username = username}
  IN IF idx = {} THEN (IF userSocketMap = <<>> THEN 0 ELSE 1)
     ELSE CHOOSE i \in idx : \A j \in idx : i <= j

\* userSocketMap.find((u) => u.username === targetUsername)
FindByUsername(username) ==
  LET idx == {i \in 1..Len(userSocketMap) : userSocketMap[i].username = username}
  IN IF idx = {} THEN 0 ELSE CHOOSE i \in idx : \A j \in idx : i <= j

\* Mutant: the owner is looked up by username alone.
FindByUsernameAnyRoom(username, roomId) ==
  LET idx == {i \in 1..Len(userSocketMap) : userSocketMap[i].username = username}
  IN IF idx = {} THEN 0 ELSE CHOOSE i \in idx : \A j \in idx : i <= j

\* userSocketMap.find((u) => u.username === ownerUsername && u.roomId === roomId)
FindByUsernameInRoom(username, roomId) ==
  LET idx == {i \in 1..Len(userSocketMap) :
                /\ userSocketMap[i].username = username
                /\ userSocketMap[i].roomId = roomId}
  IN IF idx = {} THEN 0 ELSE CHOOSE i \in idx : \A j \in idx : i <= j

\* ------------------------------------------------------ request-permission
RequestPermission(s, fileId) ==
  LET requester == getUserBySocketId(s)
      ownerIdx == FindByUsernameInRoom(fileOwners[fileId], requester.roomId)
  IN
  /\ Idle /\ connected[s]
  /\ UNCHANGED <<joins, transport, contract>>
  /\ req' = Request("request-permission", s, FALSE, NoRoom, "", fileId, "", Null)
  /\ out' =
       IF ~HasUser(s) THEN <<>>
       ELSE IF ~HasOwner(fileId) THEN
         <<EmitTo(s, "permission-error", [reason |-> "owner-not-found"])>>
       ELSE IF ownerIdx = 0 THEN
         <<EmitTo(s, "permission-error", [reason |-> "owner-offline"])>>
       ELSE
         << EmitTo(userSocketMap[ownerIdx].socketId, "permission-request",
                   [fileId |-> fileId, requester |-> requester.username,
                    requestType |-> "edit", message |-> "please"]),
            EmitTo(s, "permission-request-sent",
                   [fileId |-> fileId, owner |-> fileOwners[fileId]]) >>
  /\ acks' = <<>>
  /\ UNCHANGED <<userSocketMap, filesByRoom, fileOwners, filePermissions,
                 sioRooms, connected>>

\* -------------------------------------------------------- grant-permission
\* Mutant: a right omitted from perms is granted.
GrantEntryDefaultsTrue(perms) ==
  [canEdit |-> perms.canEdit # "false", canDelete |-> perms.canDelete # "false"]

\* filePermissions[fileId][targetUsername] = { canEdit: !!perms.canEdit, ... }
GrantEntry(perms) ==
  [canEdit |-> ToBool(perms.canEdit), canDelete |-> ToBool(perms.canDelete)]

GrantPermission(s, fileId, targetUsername, perms) ==
  LET targetIdx == FindByUsername(targetUsername) IN
  /\ Idle /\ connected[s]
  /\ UNCHANGED <<joins, transport, contract>>
  /\ req' = Request("grant-permission", s, FALSE, NoRoom, "", fileId,
                    targetUsername, perms)
  /\ IF ~isOwner(s, fileId) THEN
       /\ out' = <<EmitTo(s, "permission-denied", [action |-> "grant-permission"])>>
       /\ UNCHANGED filePermissions
     ELSE
       /\ filePermissions' =
            Put(filePermissions, fileId,
                Put(PermsOf(fileId), targetUsername, GrantEntry(perms)))
       /\ out' =
            (IF targetIdx = 0 THEN <<>>
             ELSE <<EmitTo(userSocketMap[targetIdx].socketId, "permission-updated",
                           [fileId |-> fileId, perms |-> perms,
                            owner |-> fileOwners[fileId]])>>)
            \o <<EmitTo(s, "grant-confirmation",
                        [fileId |-> fileId, targetUsername |-> targetUsername,
                         perms |-> perms])>>
  /\ acks' = <<>>
  /\ UNCHANGED <<userSocketMap, filesByRoom, fileOwners, sioRooms, connected>>

\* ------------------------------------------------------- revoke-permission
RevokePermission(s, fileId, targetUsername) ==
  LET targetIdx == FindByUsername(targetUsername) IN
  /\ Idle /\ connected[s]
  /\ UNCHANGED <<joins, transport, contract>>
  /\ req' = Request("revoke-permission", s, FALSE, NoRoom, "", fileId,
                    targetUsername, Null)
  /\ IF ~isOwner(s, fileId) THEN
       /\ out' = <<>>
       /\ UNCHANGED filePermissions
     ELSE
       /\ filePermissions' =
            IF fileId \in DOMAIN filePermissions
            THEN Put(filePermissions, fileId, Del(filePermissions[fileId], targetUsername))
            ELSE filePermissions
       /\ out' =
            (IF targetIdx = 0 THEN <<>>
             ELSE <<EmitTo(userSocketMap[targetIdx].socketId, "permission-revoked",
                           [fileId |-> fileId])>>)
            \o <<EmitTo(s, "revoke-confirmation",
                        [fileId |-> fileId, targetUsername |-> targetUsername])>>
  /\ acks' = <<>>
  /\ UNCHANGED <<userSocketMap, filesByRoom, fileOwners, sioRooms, connected>>

\* ------------------------------------------------------------ FILE_CREATED
\* newFile of the payload: absent, or an object with an id and a content.
NoFile == [defined |-> FALSE, id |-> NoValue, content |-> NoValue]
File(id, content) == [defined |-> TRUE, id |-> id, content |-> content]
NewFileInputs == {NoFile, File("", "c1")} \cup {File(f, "c1") : f \in FileIds}

\* filesByRoom[roomId].some((f) => f.id === fileId)
FileListed(roomId, fileId) ==
  \E i \in 1..Len(filesByRoom[roomId]) : filesByRoom[roomId][i].id = fileId

\* Mutant: the file is pushed whether or not its id is listed.
PushFileAlways(roomId, newFile) ==
  [filesByRoom EXCEPT ![roomId] =
     Append(@, [id |-> newFile.id, content |-> newFile.content])]

\* if (!exists) filesByRoom[roomId].push(newFile)
PushFile(roomId, newFile) ==
  IF FileListed(roomId, newFile.id) THEN filesByRoom
  ELSE [filesByRoom EXCEPT ![roomId] =
          Append(@, [id |-> newFile.id, content |-> newFile.content])]

FileCreated(s, newFile, hasAck) ==
  LET user == getUserBySocketId(s) IN
  /\ Idle /\ connected[s]
  /\ UNCHANGED <<joins, transport, contract>>
  /\ req' = Request("file-created", s, hasAck, NoRoom, "", newFile.id, "", newFile)
  /\ IF ~HasUser(s) THEN
       /\ acks' = Ack(hasAck, [ok |-> FALSE, reason |-> "not-found"])
       /\ out' = <<>>
       /\ UNCHANGED <<filesByRoom, fileOwners, filePermissions>>
     ELSE IF ~newFile.defined \/ Falsy(newFile.id) THEN
       /\ acks' = Ack(hasAck, [ok |-> FALSE, reason |-> "invalid-file"])
       /\ out' = <<>>
       /\ UNCHANGED <<filesByRoom, fileOwners, filePermissions>>
     ELSE
       /\ fileOwners' = SetOwnerOwners(newFile.id, user.username)
       /\ filePermissions' = SetOwnerPermissions(newFile.id, user.username)
       /\ filesByRoom' = PushFile(user.roomId, newFile)
       /\ out' = <<EmitIn(user.roomId, "file-created",
                          [newFile |-> newFile, createdBy |-> user.username])>>
       /\ acks' = Ack(hasAck, [ok |-> TRUE])
  /\ UNCHANGED <<userSocketMap, sioRooms, connected>>

\* ------------------------------------------------------------ FILE_UPDATED
\* const f = filesByRoom[roomId].find((x) => x.id === fileId); if (f) f.content = newContent
SetContent(roomId, fileId, newContent) ==
  LET list == filesByRoom[roomId]
      idx == {i \in 1..Len(list) : list[i].id = fileId}
  IN IF idx = {} THEN filesByRoom
     ELSE LET k == CHOOSE i \in idx : \A j \in idx : i <= j
          IN [filesByRoom EXCEPT ![roomId][k].content = newContent]

FileUpdated(s, fileId, newContent, hasAck) ==
  /\ Idle /\ connected[s]
  /\ UNCHANGED <<joins, transport, contract>>
  /\ req' = Request("file-updated", s, hasAck, NoRoom, "", fileId, "", newContent)
  /\ IF ~hasEditPermission(s, fileId) THEN
       /\ out' = <<EmitTo(s, "permission-denied",
                          [action |-> "file-updated", fileId |-> fileId])>>
       /\ acks' = Ack(hasAck, [ok |-> FALSE, reason |-> "permission-denied"])
       /\ UNCHANGED filesByRoom
     ELSE
       /\ out' = <<EmitIn(getRoomId(s), "file-updated",
                          [fileId |-> fileId, newContent |-> newContent,
                           updatedBy |-> getUserBySocketId(s).username])>>
       /\ filesByRoom' = SetContent(getRoomId(s), fileId, newContent)
       /\ acks' = Ack(hasAck, [ok |-> TRUE])
  /\ UNCHANGED <<userSocketMap, fileOwners, filePermissions, sioRooms, connected>>

\* ------------------------------------------------------------ FILE_DELETED
\* filesByRoom[roomId] = filesByRoom[roomId].filter((f) => f.id !== fileId)
RemoveFile(roomId, fileId) ==
  [filesByRoom EXCEPT ![roomId] = SelectSeq(@, LAMBDA f : f.id # fileId)]

FileDeleted(s, fileId, hasAck) ==
  /\ Idle /\ connected[s]
  /\ UNCHANGED <<joins, transport, contract>>
  /\ req' = Request("file-deleted", s, hasAck, NoRoom, "", fileId, "", Null)
  /\ IF ~hasDeletePermission(s, fileId) THEN
       /\ out' = <<EmitTo(s, "permission-denied",
                          [action |-> "file-deleted", fileId |-> fileId])>>
       /\ acks' = Ack(hasAck, [ok |-> FALSE, reason |-> "permission-denied"])
       /\ UNCHANGED filesByRoom
     ELSE
       /\ out' = <<EmitIn(getRoomId(s), "file-deleted",
                          [fileId |-> fileId,
                           deletedBy |-> getUserBySocketId(s).username])>>
       /\ filesByRoom' = RemoveFile(getRoomId(s), fileId)
       /\ acks' = Ack(hasAck, [ok |-> TRUE])
  /\ UNCHANGED <<userSocketMap, fileOwners, filePermissions, sioRooms, connected>>

\* ------------------------------------------------- SEND_MESSAGE and typing
SendMessage(s) ==
  /\ Idle /\ connected[s]
  /\ UNCHANGED <<joins, transport, contract>>
  /\ req' = Request("send-message", s, FALSE, getRoomId(s), "", "", "", Null)
  /\ out' =
       IF ~HasUser(s) THEN <<>>
       ELSE <<EmitBroadcast(sioRooms, s, getRoomId(s), "receive-message",
                            [message |-> "hello",
                             from |-> getUserBySocketId(s).username])>>
  /\ acks' = <<>>
  /\ UNCHANGED <<userSocketMap, filesByRoom, fileOwners, filePermissions,
                 sioRooms, connected>>

TypingStart(s, cursorPosition) ==
  /\ Idle /\ connected[s]
  /\ UNCHANGED <<joins, transport, contract>>
  /\ req' = Request("typing-start", s, FALSE, getRoomId(s), "", "", "", cursorPosition)
  /\ out' =
       IF ~HasUser(s) THEN <<>>
       ELSE <<EmitBroadcast(sioRooms, s, getUserBySocketId(s).roomId, "typing-start",
                            [user |-> getUserBySocketId(s)])>>
  /\ acks' = <<>>
  /\ UNCHANGED <<userSocketMap, filesByRoom, fileOwners, filePermissions,
                 sioRooms, connected>>

TypingPause(s) ==
  /\ Idle /\ connected[s]
  /\ UNCHANGED <<joins, transport, contract>>
  /\ req' = Request("typing-pause", s, FALSE, getRoomId(s), "", "", "", Null)
  /\ out' =
       IF ~HasUser(s) THEN <<>>
       ELSE <<EmitBroadcast(sioRooms, s, getUserBySocketId(s).roomId, "typing-pause",
                            [user |-> getUserBySocketId(s)])>>
  /\ acks' = <<>>
  /\ UNCHANGED <<userSocketMap, filesByRoom, fileOwners, filePermissions,
                 sioRooms, connected>>

\* ---------------------------------------------------------- the event loop
\* The handler returns; its emits and acknowledgment are handed to the transport.
HandlerReturn ==
  /\ ~Idle
  /\ UNCHANGED <<joins, transport, contract>>
  /\ req' = NoRequest
  /\ out' = <<>>
  /\ acks' = <<>>
  /\ UNCHANGED <<userSocketMap, filesByRoom, fileOwners, filePermissions,
                 sioRooms, connected>>

PermInputs ==
  { [canEdit |-> "true", canDelete |-> "false"],
    [canEdit |-> "false", canDelete |-> "true"],
    [canEdit |-> "true", canDelete |-> "undefined"] }

\* One event at a time: a handler runs to completion before the next starts.
Next ==
  \/ \E s \in Sockets, r \in RoomInputs, u \in UsernameInputs, a \in BOOLEAN :
       JoinRequest(s, r, u, a)
  \/ \E s \in Sockets : Disconnecting(s)
  \/ \E s \in Sockets, f \in FileIds : RequestPermission(s, f)
  \/ \E s \in Sockets, f \in FileIds, t \in Usernames, p \in PermInputs :
       GrantPermission(s, f, t, p)
  \/ \E s \in Sockets, f \in FileIds, t \in Usernames : RevokePermission(s, f, t)
  \/ \E s \in Sockets, nf \in NewFileInputs, a \in BOOLEAN : FileCreated(s, nf, a)
  \/ \E s \in Sockets, f \in FileIds, c \in Contents, a \in BOOLEAN :
       FileUpdated(s, f, c, a)
  \/ \E s \in Sockets, f \in FileIds, a \in BOOLEAN : FileDeleted(s, f, a)
  \/ \E s \in Sockets : SendMessage(s)
  \/ \E s \in Sockets, c \in CursorInputs : TypingStart(s, c)
  \/ \E s \in Sockets : TypingPause(s)
  \/ HandlerReturn

Spec == Init /\ [][Next]_vars

\* ------------------------------------- JOIN_REQUEST, statement by statement
\* The handler of lines 95-155 is synchronous: it has no await and no
\* callback, so Node runs it from its first statement to its return before
\* the event loop hands the next event to any handler.  Requests of several
\* sockets are in flight together (queued); their handlers are not.
Running(s) == joins[s].pc \in {"validate", "check", "insert", "notify"}

\* Mutant: the event loop hands over an event while a handler is suspended.
EventLoopFreeAnytime == TRUE

\* No handler is on the stack.
EventLoopFree == \A t \in Sockets : ~Running(t)

InFlight == {t \in Sockets : joins[t].pc = "queued" \/ Running(t)}

\* The request reaches the server while others may be waiting or running.
JoinArrives(s, rawRoom, rawName, hasAck) ==
  /\ connected[s]
  /\ joins[s].pc \in {"none", "done"}
  /\ Len(userSocketMap) + Cardinality(InFlight) < MaxUsers
  /\ joins' = [joins EXCEPT ![s] =
                 JoinCall("queued", rawRoom, rawName, hasAck, NoRoom, "", <<>>, <<>>)]
  /\ UNCHANGED <<userSocketMap, filesByRoom, fileOwners, filePermissions,
                 sioRooms, connected, req, out, acks,
                 transport, contract>>

\* Lines 99-100: the handler starts and reads roomId and username.
JoinDispatch(s) ==
  /\ joins[s].pc = "queued"
  /\ EventLoopFree
  /\ joins' = [joins EXCEPT ![s].pc = "validate",
                            ![s].roomId = Trim(joins[s].rawRoom),
                            ![s].username = ResolveUsername(s, joins[s].rawName)]
  /\ UNCHANGED <<userSocketMap, filesByRoom, fileOwners, filePermissions,
                 sioRooms, connected, req, out, acks,
                 transport, contract>>

\* Lines 102-105.
JoinValidate(s) ==
  /\ joins[s].pc = "validate"
  /\ joins' =
       IF joins[s].roomId = NoRoom
       THEN [joins EXCEPT ![s].pc = "done",
                          ![s].acks = Ack(joins[s].hasAck,
                                          [ok |-> FALSE, reason |-> "invalid-room-id"])]
       ELSE [joins EXCEPT ![s].pc = "check"]
  /\ UNCHANGED <<userSocketMap, filesByRoom, fileOwners, filePermissions,
                 sioRooms, connected, req, out, acks,
                 transport, contract>>

\* Lines 107-112.
JoinCheck(s) ==
  /\ joins[s].pc = "check"
  /\ joins' =
       IF UsernameExists(joins[s].roomId, joins[s].username)
       THEN [joins EXCEPT ![s].pc = "done",
                          ![s].out = <<EmitTo(s, "username-exists", Null)>>,
                          ![s].acks = Ack(joins[s].hasAck,
                                          [ok |-> FALSE, reason |-> "username-exists"])]
       ELSE [joins EXCEPT ![s].pc = "insert"]
  /\ UNCHANGED <<userSocketMap, filesByRoom, fileOwners, filePermissions,
                 sioRooms, connected, req, out, acks,
                 transport, contract>>

\* Lines 114-125.
JoinInsert(s) ==
  /\ joins[s].pc = "insert"
  /\ userSocketMap' =
       Append(userSocketMap, NewUser(s, joins[s].roomId, joins[s].username))
  /\ sioRooms' = [sioRooms EXCEPT ![s] = @ \cup {joins[s].roomId}]
  /\ joins' = [joins EXCEPT ![s].pc = "notify"]
  /\ UNCHANGED <<filesByRoom, fileOwners, filePermissions, connected, req, out, acks,
                 transport, contract>>

\* Lines 128-149.
JoinNotify(s) ==
  LET roomId == joins[s].roomId
      newUser == NewUser(s, roomId, joins[s].username)
      users == getUsersInRoom(roomId)
      files == FilesOf(roomId)
  IN
  /\ joins[s].pc = "notify"
  /\ joins' =
       [joins EXCEPT
          ![s].pc = "done",
          ![s].out = << EmitBroadcast(sioRooms, s, roomId, "user-joined",
                                      [user |-> newUser]),
                        EmitTo(s, "join-accepted",
                               [user |-> newUser, users |-> users, files |-> files]) >>,
          ![s].acks = Ack(joins[s].hasAck,
                          [ok |-> TRUE, user |-> newUser, users |-> users,
                           files |-> files])]
  /\ UNCHANGED <<userSocketMap, filesByRoom, fileOwners, filePermissions,
                 sioRooms, connected, req, out, acks,
                 transport, contract>>

NextSteps ==
  \/ \E s \in Sockets, r \in RoomInputs, u \in UsernameInputs, a \in BOOLEAN :
       JoinArrives(s, r, u, a)
  \/ \E s \in Sockets : JoinDispatch(s)
  \/ \E s \in Sockets : JoinValidate(s)
  \/ \E s \in Sockets : JoinCheck(s)
  \/ \E s \in Sockets : JoinInsert(s)
  \/ \E s \in Sockets : JoinNotify(s)

SpecSteps == Init /\ [][NextSteps]_vars

\* ------------------------------------ the server of server/src/types/socket.ts
\* The file carries a second copy of the server below its type declarations,
\* with its own registry and handlers and no file store or permission maps.
\* Its helpers getUsersInRoom, getRoomId and getUserBySocketId compute what
\* the ones above compute.

\* Lines 113-150.
VariantJoinRequest(s, rawRoom, rawName, hasAck) ==
  LET roomId == Trim(rawRoom)
      user == NewUser(s, roomId, rawName)
  IN
  /\ Idle /\ connected[s]
  /\ UNCHANGED <<joins, transport, contract>>
  /\ req' = Request("join-request", s, hasAck, roomId, rawName, "", "", rawRoom)
  /\ IF roomId = NoRoom THEN
       /\ acks' = Ack(hasAck, [ok |-> FALSE, error |-> "missing roomId"])
       /\ out' = <<>>
       /\ UNCHANGED <<userSocketMap, sioRooms>>
     ELSE IF UsernameExists(roomId, rawName) THEN
       /\ out' = <<EmitTo(s, "username-exists", Null)>>
       /\ acks' = Ack(hasAck, [ok |-> FALSE, reason |-> "username-exists"])
       /\ UNCHANGED <<userSocketMap, sioRooms>>
     ELSE
       /\ Len(userSocketMap) < MaxUsers
       /\ userSocketMap' = Append(userSocketMap, user)
       /\ sioRooms' = [sioRooms EXCEPT ![s] = @ \cup {roomId}]
       /\ LET users == SelectSeq(userSocketMap', LAMBDA u : u.roomId = roomId)
          IN
          /\ out' = << EmitBroadcast(sioRooms', s, roomId, "user-joined",
                                     [user |-> user]),
                       EmitTo(s, "join-accepted", [user |-> user, users |-> users]) >>
          /\ acks' = Ack(hasAck, [ok |-> TRUE, user |-> user, users |-> users])
  /\ UNCHANGED <<filesByRoom, fileOwners, filePermissions, connected>>

\* Lines 153-160: as above, then socket.leave(roomId), which the transport's
\* own clean-up of the socket's rooms covers.
VariantDisconnecting(s) ==
  /\ DisconnectingRegistry(s)
  /\ UNCHANGED <<filesByRoom, fileOwners, filePermissions>>

\* Lines 203-217.
VariantFileCreated(s, newFile, hasAck) ==
  LET roomId == getRoomId(s) IN
  /\ Idle /\ connected[s]
  /\ UNCHANGED <<joins, transport, contract>>
  /\ req' = Request("file-created", s, hasAck, NoRoom, "", newFile.id, "", newFile)
  /\ IF roomId = NoRoom THEN
       /\ acks' = Ack(hasAck, [ok |-> FALSE, error |-> "no-room"])
       /\ out' = <<>>
     ELSE
       /\ out' = <<EmitBroadcast(sioRooms, s, roomId, "file-created",
                                 [newFile |-> newFile])>>
       /\ acks' = Ack(hasAck, [ok |-> TRUE, fileId |-> newFile.id])
  /\ UNCHANGED <<userSocketMap, filesByRoom, fileOwners, filePermissions,
                 sioRooms, connected>>

\* userSocketMap.map(...): every user of the socket is typing at cursorPosition.
TypingUsers(s, cursorPosition) ==
  [i \in 1..Len(userSocketMap) |->
     IF userSocketMap[i].socketId = s
     THEN [userSocketMap[i] EXCEPT !.typing = TRUE, !.cursorPosition = cursorPosition]
     ELSE userSocketMap[i]]

\* userSocketMap.map(...): no user of the socket is typing.
PausedUsers(s) ==
  [i \in 1..Len(userSocketMap) |->
     IF userSocketMap[i].socketId = s
     THEN [userSocketMap[i] EXCEPT !.typing = FALSE]
     ELSE userSocketMap[i]]

\* getUserBySocketId(socket.id), read after the registry was rewritten.
TypingUser(s, users) ==
  LET idx == {i \in 1..Len(users) : users[i].socketId = s}
  IN users[CHOOSE i \in idx : \A j \in idx : i <= j]

\* Lines 289-308.
VariantTypingStart(s, cursorPosition) ==
  LET users == TypingUsers(s, cursorPosition)
  IN
  /\ Idle /\ connected[s]
  /\ UNCHANGED <<joins, transport, contract>>
  /\ req' = Request("typing-start", s, FALSE, getRoomId(s), "", "", "", cursorPosition)
  /\ userSocketMap' = users
  /\ out' =
       IF ~HasUser(s) THEN <<>>
       ELSE <<EmitBroadcast(sioRooms, s, TypingUser(s, users).roomId, "typing-start",
                            [user |-> TypingUser(s, users)])>>
  /\ acks' = <<>>
  /\ UNCHANGED <<filesByRoom, fileOwners, filePermissions, sioRooms, connected>>

\* Lines 310-320.
VariantTypingPause(s) ==
  LET users == PausedUsers(s)
  IN
  /\ Idle /\ connected[s]
  /\ UNCHANGED <<joins, transport, contract>>
  /\ req' = Request("typing-pause", s, FALSE, getRoomId(s), "", "", "", Null)
  /\ userSocketMap' = users
  /\ out' =
       IF ~HasUser(s) THEN <<>>
       ELSE <<EmitBroadcast(sioRooms, s, TypingUser(s, users).roomId, "typing-pause",
                            [user |-> TypingUser(s, users)])>>
  /\ acks' = <<>>
  /\ UNCHANGED <<filesByRoom, fileOwners, filePermissions, sioRooms, connected>>

\* socketId of a sync payload: a connection's id, or missing.
SocketIdInputs == Sockets \cup {NoSocket}

\* Lines 164-172: the structure is passed on to the socket the payload names.
VariantSyncFileStructure(s, socketId) ==
  /\ Idle /\ connected[s]
  /\ UNCHANGED <<joins, transport, contract>>
  /\ req' = Request("sync-file-structure", s, FALSE, getRoomId(s), "", "", socketId, Null)
  /\ out' =
       IF socketId = NoSocket THEN <<>>
       ELSE <<EmitTo(socketId, "sync-file-structure", Null)>>
  /\ acks' = <<>>
  /\ UNCHANGED <<userSocketMap, filesByRoom, fileOwners, filePermissions,
                 sioRooms, connected>>

\* Lines 343-347.
VariantRequestDrawing(s) ==
  /\ Idle /\ connected[s]
  /\ UNCHANGED <<joins, transport, contract>>
  /\ req' = Request("request-drawing", s, FALSE, getRoomId(s), "", "", "", Null)
  /\ out' =
       IF ~HasUser(s) THEN <<>>
       ELSE <<EmitBroadcast(sioRooms, s, getRoomId(s), "request-drawing",
                            [socketId |-> s])>>
  /\ acks' = <<>>
  /\ UNCHANGED <<userSocketMap, filesByRoom, fileOwners, filePermissions,
                 sioRooms, connected>>

\* Lines 349-354: the drawing is passed on to the socket the payload names.
VariantSyncDrawing(s, socketId) ==
  /\ Idle /\ connected[s]
  /\ UNCHANGED <<joins, transport, contract>>
  /\ req' = Request("sync-drawing", s, FALSE, getRoomId(s), "", "", socketId, Null)
  /\ out' =
       IF socketId = NoSocket THEN <<>>
       ELSE <<EmitTo(socketId, "sync-drawing", Null)>>
  /\ acks' = <<>>
  /\ UNCHANGED <<userSocketMap, filesByRoom, fileOwners, filePermissions,
                 sioRooms, connected>>

\* Lines 356-361.
VariantDrawingUpdate(s) ==
  /\ Idle /\ connected[s]
  /\ UNCHANGED <<joins, transport, contract>>
  /\ req' = Request("drawing-update", s, FALSE, getRoomId(s), "", "", "", Null)
  /\ out' =
       IF ~HasUser(s) THEN <<>>
       ELSE <<EmitBroadcast(sioRooms, s, getRoomId(s), "drawing-update", Null)>>
  /\ acks' = <<>>
  /\ UNCHANGED <<userSocketMap, filesByRoom, fileOwners, filePermissions,
                 sioRooms, connected>>

\* userSocketMap.map(...): every user of socketId gets the status.
WithStatus(socketId, status) ==
  [i \in 1..Len(userSocketMap) |->
     IF userSocketMap[i].socketId = socketId
     THEN [userSocketMap[i] EXCEPT !.status = status]
     ELSE userSocketMap[i]]

\* Lines 251-263 (offline) and 265-277 (online): the socket whose users are
\* marked, and whose room is told, is the one the payload names.
VariantUserStatus(s, socketId, status) ==
  /\ Idle /\ connected[s]
  /\ UNCHANGED <<joins, transport, contract>>
  /\ req' = Request("user-" \o status, s, FALSE, getRoomId(s), "", "", socketId, status)
  /\ IF socketId = NoSocket THEN
       /\ out' = <<>>
       /\ UNCHANGED userSocketMap
     ELSE
       /\ userSocketMap' = WithStatus(socketId, status)
       /\ out' =
            IF ~HasUser(socketId) THEN <<>>
            ELSE <<EmitBroadcast(sioRooms, s, getRoomId(socketId), "user-" \o status,
                                 [socketId |-> socketId])>>
  /\ acks' = <<>>
  /\ UNCHANGED <<filesByRoom, fileOwners, filePermissions, sioRooms, connected>>

VariantUserOffline(s, socketId) == VariantUserStatus(s, socketId, "offline")

VariantUserOnline(s, socketId) == VariantUserStatus(s, socketId, "online")

NextVariant ==
  \/ \E s \in Sockets, r \in RoomInputs, u \in UsernameInputs, a \in BOOLEAN :
       VariantJoinRequest(s, r, u, a)
  \/ \E s \in Sockets : VariantDisconnecting(s)
  \/ \E s \in Sockets, nf \in NewFileInputs, a \in BOOLEAN :
       VariantFileCreated(s, nf, a)
  \/ \E s \in Sockets, c \in CursorInputs : VariantTypingStart(s, c)
  \/ \E s \in Sockets : VariantTypingPause(s)
  \/ \E s \in Sockets, t \in SocketIdInputs : VariantSyncFileStructure(s, t)
  \/ \E s \in Sockets : VariantRequestDrawing(s)
  \/ \E s \in Sockets, t \in SocketIdInputs : VariantSyncDrawing(s, t)
  \/ \E s \in Sockets : VariantDrawingUpdate(s)
  \/ \E s \in Sockets, t \in SocketIdInputs : VariantUserOffline(s, t)
  \/ \E s \in Sockets, t \in SocketIdInputs : VariantUserOnline(s, t)
  \/ HandlerReturn

SpecVariant == Init /\ [][NextVariant]_vars

\* ----------------------------------------------------- delivery of events
\* The handlers pass their emits to socket.io in program order.  socket.io
\* writes the packets of one connection to one ordered channel, which is
\* taken here as given: what a connection is sent, its client receives in
\* that order.
\* Cap on the number of events followed (the server issues without end).
MaxIssued == 5

\* The n-th event the server has issued; a direct event has room NoRoom.
WireEvent(e, n) == [stamp |-> n, room |-> e.room, ev |-> e.ev]

\* Mutant: a packet overtakes the packets already written to the connection.
EnqueueFront(queue, e) == <<e>> \o queue

\* emit(...): the packet is written behind the ones written before it.
Enqueue(queue, e) == Append(queue, e)

\* The emits of one handler, written for each recipient in program order.
RECURSIVE Send(_, _, _)
Send(w, emits, n) ==
  IF emits = <<>> THEN w
  ELSE Send([c \in Sockets |->
               IF c \in Head(emits).rcpts
               THEN Enqueue(w[c], WireEvent(Head(emits), n + 1))
               ELSE w[c]],
            Tail(emits), n + 1)

\* The handler returns, its events written to the connections.
Transmit ==
  /\ ~Idle
  /\ issued + Len(out) <= MaxIssued
  /\ wire' = Send(wire, out, issued)
  /\ issued' = issued + Len(out)
  /\ req' = NoRequest
  /\ out' = <<>>
  /\ acks' = <<>>
  /\ UNCHANGED <<userSocketMap, filesByRoom, fileOwners, filePermissions,
                 sioRooms, connected, joins, delivered, contract>>

\* The client of connection c takes the next packet and runs its listener.
Receive(c) ==
  /\ connected[c]
  /\ wire[c] # <<>>
  /\ delivered' = [delivered EXCEPT ![c] = Append(@, Head(wire[c]))]
  /\ wire' = [wire EXCEPT ![c] = Tail(@)]
  /\ UNCHANGED <<userSocketMap, filesByRoom, fileOwners, filePermissions,
                 sioRooms, connected, req, out, acks, joins, issued, contract>>

NextWire ==
  \/ \E s \in Sockets, r \in RoomInputs, u \in UsernameInputs, a \in BOOLEAN :
       JoinRequest(s, r, u, a)
  \/ \E s \in Sockets : Disconnecting(s)
  \/ \E s \in Sockets, nf \in NewFileInputs, a \in BOOLEAN : FileCreated(s, nf, a)
  \/ \E s \in Sockets, f \in FileIds, c \in Contents, a \in BOOLEAN :
       FileUpdated(s, f, c, a)
  \/ \E s \in Sockets, f \in FileIds, a \in BOOLEAN : FileDeleted(s, f, a)
  \/ \E s \in Sockets : SendMessage(s)
  \/ \E s \in Sockets, c \in CursorInputs : TypingStart(s, c)
  \/ \E s \in Sockets : TypingPause(s)
  \/ Transmit
  \/ \E c \in Sockets : Receive(c)

SpecWire == Init /\ [][NextWire]_vars

\* --------------------------------------------------------- BlockchainVoting
\* Mutant: everyone passes for the admin.
onlyAdminAnyone(sender) == TRUE

\* modifier onlyAdmin: require(msg.sender == admin)
onlyAdmin(sender) == sender = admin

\* modifier onlyDuringElection: require(electionActive)
onlyDuringElection == electionActive

\* Mutant: a registered voter can be registered again.
NotYetRegisteredAlways(voterAddress) == TRUE

\* require(!voters[voterAddress].registered)
NotYetRegistered(voterAddress) == ~voters[voterAddress].registered

\* The transaction reverts: the storage is as before.
Revert == UNCHANGED <<admin, voters, candidates, electionActive>>

registerVoter(sender, voterAddress) ==
  /\ UNCHANGED server
  /\ IF onlyAdmin(sender) /\ NotYetRegistered(voterAddress) THEN
       /\ voters' = [voters EXCEPT ![voterAddress] =
                       [registered |-> TRUE, voted |-> FALSE]]
       /\ call' = Call("registerVoter", sender, voterAddress, TRUE)
       /\ UNCHANGED <<admin, candidates, electionActive>>
     ELSE
       /\ call' = Call("registerVoter", sender, voterAddress, FALSE)
       /\ Revert

startElection(sender) ==
  /\ UNCHANGED server
  /\ IF onlyAdmin(sender) THEN
       /\ electionActive' = TRUE
       /\ call' = Call("startElection", sender, Null, TRUE)
       /\ UNCHANGED <<admin, voters, candidates>>
     ELSE
       /\ call' = Call("startElection", sender, Null, FALSE)
       /\ Revert

endElection(sender) ==
  /\ UNCHANGED server
  /\ IF onlyAdmin(sender) THEN
       /\ electionActive' = FALSE
       /\ call' = Call("endElection", sender, Null, TRUE)
       /\ UNCHANGED <<admin, voters, candidates>>
     ELSE
       /\ call' = Call("endElection", sender, Null, FALSE)
       /\ Revert

vote(sender, candidateIndex) ==
  /\ UNCHANGED server
  /\ IF /\ onlyDuringElection
        /\ voters[sender].registered
        /\ ~voters[sender].voted
        /\ candidateIndex \in DOMAIN candidates
     THEN
       /\ voters' = [voters EXCEPT ![sender].voted = TRUE]
       /\ candidates' = [candidates EXCEPT ![candidateIndex].voteCount = @ + 1]
       /\ call' = Call("vote", sender, candidateIndex, TRUE)
       /\ UNCHANGED <<admin, electionActive>>
     ELSE
       /\ call' = Call("vote", sender, candidateIndex, FALSE)
       /\ Revert

NextVoting ==
  \/ \E a \in Addresses, v \in Addresses : registerVoter(a, v)
  \/ \E a \in Addresses : startElection(a)
  \/ \E a \in Addresses : endElection(a)
  \/ \E a \in Addresses, i \in CandidateIndexes : vote(a, i)

SpecVoting == Init /\ [][NextVoting]_vars

\* ================================================================ claims
\* The user a connection resolves to, and the rooms it is bound to.
Bound(c, roomId) ==
  \E i \in 1..Len(userSocketMap) :
    userSocketMap[i].socketId = c /\ userSocketMap[i].roomId = roomId

NameTaken(roomId, username) ==
  \E i \in 1..Len(userSocketMap) :
    userSocketMap[i].roomId = roomId /\ userSocketMap[i].username = username

\* The permission entry of username on fileId, Null when there is none.
Entry(fileId, username) ==
  IF fileId \in DOMAIN filePermissions /\ username \in DOMAIN filePermissions[fileId]
  THEN filePermissions[fileId][username] ELSE Null

\* The caller of the event resolves to a user named username.
ResolvesTo(s, username) ==
  \E i \in 1..Len(userSocketMap) :
    /\ userSocketMap[i].socketId = s
    /\ userSocketMap[i].username = username
    /\ \A j \in 1..(i - 1) : userSocketMap[j].socketId # s

CallerOwns(s, fileId) ==
  fileId \in DOMAIN fileOwners /\ ResolvesTo(s, fileOwners[fileId])

Denied(action, s, fileId) ==
  <<[mode |-> "to", room |-> NoRoom, to |-> s, ev |-> "permission-denied",
     payload |-> [action |-> action, fileId |-> fileId], rcpts |-> {s}]>>

DeniedAck(hasAck) ==
  IF hasAck THEN <<[ok |-> FALSE, reason |-> "permission-denied"]>> ELSE <<>>

\* ---- C1
UniqueUsernames ==
  \A i, j \in 1..Len(userSocketMap) :
    (i # j /\ userSocketMap[i].roomId = userSocketMap[j].roomId)
      => userSocketMap[i].username # userSocketMap[j].username

CollidingJoinFails ==
  (req'.op = "join-request" /\ NameTaken(req'.roomId, req'.username))
    => /\ userSocketMap' = userSocketMap
       /\ sioRooms' = sioRooms
       /\ Len(out') = 1
       /\ out'[1].ev = "username-exists" /\ out'[1].rcpts = {req'.socket}
       /\ acks' = IF req'.hasAck
                  THEN <<[ok |-> FALSE, reason |-> "username-exists"]>> ELSE <<>>

\* C1: no two users of one room share a username, and a join whose username
\* is held in the room fails with username-exists, the registry and the room
\* membership of every socket unchanged.
C1_Uniqueness == []UniqueUsernames /\ [][CollidingJoinFails]_vars

\* A colliding join from another connection has been rejected.
C1_Witness ==
  /\ req.op = "join-request"
  /\ Len(out) = 1 /\ out[1].ev = "username-exists"
  /\ \E i \in 1..Len(userSocketMap) :
       /\ userSocketMap[i].roomId = req.roomId
       /\ userSocketMap[i].username = req.username
       /\ userSocketMap[i].socketId # req.socket

\* ---- C2
\* C2: once a resource id has a recorded owner, no step changes that owner.
C2_OwnerNeverChanges ==
  [][\A f \in DOMAIN fileOwners :
       f \in DOMAIN fileOwners' => fileOwners'[f] = fileOwners[f]]_vars

\* ---- C3
\* C3: whoever resolves to the recorded owner of a resource passes the edit
\* check and the delete check on it.
C3_OwnerImplicitRights ==
  \A f \in DOMAIN fileOwners : \A s \in Sockets :
    ResolvesTo(s, fileOwners[f])
      => hasEditPermission(s, f) /\ hasDeletePermission(s, f)

\* ---- C4
OwnerGrantOrRevoke(f, u) ==
  /\ req'.op \in {"grant-permission", "revoke-permission"}
  /\ req'.fileId = f /\ req'.target = u
  /\ CallerOwns(req'.socket, f)

ResourceDeleted(f, u) ==
  /\ req'.op = "file-deleted" /\ req'.fileId = f
  /\ Entry(f, u)' = Null

\* C4: the entry of a username that is not the recorded owner of the resource
\* changes only in a grant or revoke issued by the owner for that username, or
\* goes with the deletion of the resource.
C4_EntriesOnlyByOwner ==
  [][\A f \in DOMAIN fileOwners : \A u \in Usernames :
       (u # fileOwners[f] /\ Entry(f, u)' # Entry(f, u))
         => OwnerGrantOrRevoke(f, u) \/ ResourceDeleted(f, u)]_vars

\* ---- C5
NonOwnerGrantOrRevoke ==
  /\ req'.op \in {"grant-permission", "revoke-permission"}
  /\ ~CallerOwns(req'.socket, req'.fileId)

\* C5: a grant or revoke by a caller who is not the recorded owner changes
\* neither map and emits no permission-updated or permission-revoked.
C5_NonOwnerChangesNothing ==
  [][NonOwnerGrantOrRevoke
       => /\ fileOwners' = fileOwners
          /\ filePermissions' = filePermissions
          /\ \A i \in 1..Len(out') :
               out'[i].ev \notin {"permission-updated", "permission-revoked"}]_vars

\* A joined non-owner has tried to grant on a resource that has an owner and
\* a target who is connected.
C5_Witness ==
  /\ req.op = "grant-permission"
  /\ HasUser(req.socket)
  /\ req.fileId \in DOMAIN fileOwners
  /\ ~CallerOwns(req.socket, req.fileId)
  /\ \E i \in 1..Len(userSocketMap) : userSocketMap[i].username = req.target
  /\ Len(out) = 1 /\ out[1].ev = "permission-denied"

\* ---- C6
FailedUpdate ==
  /\ req'.op = "file-updated"
  /\ \A u \in Usernames :
       ResolvesTo(req'.socket, u) => ~(Entry(req'.fileId, u) # Null
                                       /\ Entry(req'.fileId, u).canEdit)

FailedDelete ==
  /\ req'.op = "file-deleted"
  /\ \A u \in Usernames :
       ResolvesTo(req'.socket, u) => ~(Entry(req'.fileId, u) # Null
                                       /\ Entry(req'.fileId, u).canDelete)

\* C6: an update without canEdit or a delete without canDelete sends
\* permission-denied {action, fileId} to the caller alone, acknowledges
\* {ok: false, reason: permission-denied} when an acknowledgment was supplied,
\* and leaves every file list and its contents as they were.
C6_DeniedIsLocal ==
  [][/\ FailedUpdate
          => /\ out' = Denied("file-updated", req'.socket, req'.fileId)
             /\ acks' = DeniedAck(req'.hasAck)
             /\ filesByRoom' = filesByRoom
     /\ FailedDelete
          => /\ out' = Denied("file-deleted", req'.socket, req'.fileId)
             /\ acks' = DeniedAck(req'.hasAck)
             /\ filesByRoom' = filesByRoom]_vars

\* A joined user without canEdit has tried to update a file listed in its room,
\* with an acknowledgment and with another connection in the room.
C6_Witness ==
  /\ req.op = "file-updated" /\ req.hasAck
  /\ HasUser(req.socket)
  /\ ~hasEditPermission(req.socket, req.fileId)
  /\ FileListed(getRoomId(req.socket), req.fileId)
  /\ \E c \in Sockets \ {req.socket} : Bound(c, getRoomId(req.socket))
  /\ out = Denied("file-updated", req.socket, req.fileId)

\* ---- C7
EditOnly == [canEdit |-> TRUE, canDelete |-> FALSE]

UpdateSucceeds(s, f) ==
  /\ Len(out') = 1 /\ out'[1].ev = "file-updated" /\ out'[1].payload.fileId = f
  /\ (req'.hasAck => acks' = <<[ok |-> TRUE]>>)

\* C7: while a non-owner holds {canEdit: true, canDelete: false} on a resource
\* by the owner's grant, its updates succeed and its deletes are denied, and
\* only the next grant or revoke for it ends that.
C7_EditWithoutDelete ==
  [][\A f \in DOMAIN fileOwners : \A u \in Usernames :
       (u # fileOwners[f] /\ Entry(f, u) = EditOnly)
         => /\ (req'.op = "file-updated" /\ req'.fileId = f
                 /\ ResolvesTo(req'.socket, u)) => UpdateSucceeds(req'.socket, f)
            /\ (req'.op = "file-deleted" /\ req'.fileId = f
                 /\ ResolvesTo(req'.socket, u))
                 => out' = Denied("file-deleted", req'.socket, f)
            /\ Entry(f, u)' = EditOnly
                 \/ (/\ req'.op \in {"grant-permission", "revoke-permission"}
                     /\ req'.fileId = f /\ req'.target = u)]_vars

\* ---- C8
\* C8: once a connection's disconnect is processed, roomOf and userOf find
\* nothing for it, no room lists a user of it, it is in no room of the
\* adapter, and the only event of it that reached a handler is the disconnect.
C8_CleanupOnDisconnect ==
  \A s \in Sockets :
    ~connected[s]
      => /\ getRoomId(s) = NoRoom
         /\ getUserBySocketId(s) = Null
         /\ \A r \in RoomIds :
              \A i \in 1..Len(getUsersInRoom(r)) : getUsersInRoom(r)[i].socketId # s
         /\ sioRooms[s] = {}
         /\ \A i \in 1..Len(out) : s \notin out[i].rcpts
         /\ (req.socket = s => req.op = "disconnecting")

\* A joined connection has disconnected, and another member of its room heard it.
C8_Witness ==
  /\ req.op = "disconnecting"
  /\ ~connected[req.socket]
  /\ Len(out) = 1 /\ out[1].ev = "user-disconnected" /\ out[1].rcpts # {}

\* ---- C9
\* C9: processing a disconnect leaves the ownership map and the permission
\* map as they were.
C9_OwnershipSurvivesDisconnect ==
  [][req'.op = "disconnecting"
       => fileOwners' = fileOwners /\ filePermissions' = filePermissions]_vars

\* The owner of a resource has disconnected and is still its recorded owner.
C9_Witness ==
  /\ req.op = "disconnecting"
  /\ Len(out) = 1
  /\ \E f \in DOMAIN fileOwners :
       /\ fileOwners[f] = out[1].payload.user.username
       /\ Entry(f, fileOwners[f]) # Null

\* ---- C10
ExceptSenderEvents ==
  {"user-joined", "user-disconnected", "receive-message", "typing-start",
   "typing-pause"}

\* C10: an except-sender broadcast never reaches the sender's connection and
\* reaches exactly the other connections bound to the room it is sent to.
C10_FanOutExclusion ==
  \A i \in 1..Len(out) :
    out[i].ev \in ExceptSenderEvents
      => /\ out[i].room = req.roomId
         /\ req.socket \notin out[i].rcpts
         /\ out[i].rcpts = {c \in Sockets \ {req.socket} : Bound(c, out[i].room)}

\* A chat message has reached the other member of the sender's room.
C10_Witness ==
  /\ req.op = "send-message"
  /\ Len(out) = 1 /\ out[1].ev = "receive-message"
  /\ out[1].rcpts # {}
  /\ Bound(req.socket, out[1].room)

\* ---- C11
\* C11: a file-updated or file-deleted broadcast never reaches the caller's
\* own connection and reaches every other connection bound to the caller's room.
C11_UpdateDeleteExceptSender ==
  \A i \in 1..Len(out) :
    out[i].ev \in {"file-updated", "file-deleted"}
      => /\ req.socket \notin out[i].rcpts
         /\ out[i].rcpts = {c \in Sockets \ {req.socket} : Bound(c, out[i].room)}

\* ---- C12
ValidCreate ==
  /\ req.op = "file-created"
  /\ HasUser(req.socket)
  /\ req.arg.defined /\ req.arg.id \notin {NoValue, ""}

\* C12: while a create of a joined caller with a file id is handled, a
\* file-created event goes to every connection bound to the caller's room,
\* the caller's own among them, and no file-created event goes anywhere else.
C12_CreateReachesWholeRoom ==
  /\ ValidCreate
       => \E i \in 1..Len(out) :
            /\ out[i].ev = "file-created"
            /\ req.socket \in out[i].rcpts
            /\ out[i].rcpts = {c \in Sockets : Bound(c, getRoomId(req.socket))}
  /\ \A i \in 1..Len(out) :
       out[i].ev = "file-created"
         => out[i].rcpts \subseteq {c \in Sockets : Bound(c, getRoomId(req.socket))}

\* ---- C13
SuccessfulDelete(f, r) ==
  /\ req'.op = "file-deleted" /\ req'.fileId = f
  /\ Len(out') = 1 /\ out'[1].ev = "file-deleted" /\ out'[1].room = r

\* C13: a successful delete leaves the resource in no file list of the
\* caller's room, with no ownership record and no permission entry, so that
\* nobody passes the owner, edit or delete check on it.
C13_DeleteRemovesRecords ==
  [][\A f \in FileIds, r \in RoomIds :
       SuccessfulDelete(f, r)
         => /\ ~FileListed(r, f)'
            /\ f \notin DOMAIN fileOwners'
            /\ \A u \in Usernames : Entry(f, u)' = Null
            /\ \A s \in Sockets :
                 /\ ~isOwner(s, f)'
                 /\ ~hasEditPermission(s, f)'
                 /\ ~hasDeletePermission(s, f)']_vars

\* ---- C14
\* A right of a grant payload: its value when given, false when omitted.
Given(v) == v # "undefined"
RightOf(v) == IF Given(v) THEN v = "true" ELSE FALSE

OwnerGrant(f, u) ==
  /\ req'.op = "grant-permission" /\ req'.fileId = f /\ req'.target = u
  /\ CallerOwns(req'.socket, f)

\* C14: after a grant by the owner the target's entry is exactly the rights
\* of the payload, an omitted right being false, whatever the entry was.
C14_GrantReplacesEntry ==
  [][\A f \in FileIds, u \in Usernames :
       OwnerGrant(f, u)
         => Entry(f, u)' = [canEdit |-> RightOf(req'.arg.canEdit),
                            canDelete |-> RightOf(req'.arg.canDelete)]]_vars

\* The owner has granted another user a payload that omits canDelete, and
\* the target's entry carries no delete right.
C14_Witness ==
  /\ req.op = "grant-permission"
  /\ CallerOwns(req.socket, req.fileId)
  /\ req.target # fileOwners[req.fileId]
  /\ ~Given(req.arg.canDelete)
  /\ Entry(req.fileId, req.target) = [canEdit |-> TRUE, canDelete |-> FALSE]
  /\ out[Len(out)].ev = "grant-confirmation"

\* ---- C15
OwnerRevoke(f, u) ==
  /\ req'.op = "revoke-permission" /\ req'.fileId = f /\ req'.target = u
  /\ CallerOwns(req'.socket, f)

RevokeConfirmed ==
  /\ out' # <<>>
  /\ out'[Len(out')].ev = "revoke-confirmation"
  /\ out'[Len(out')].rcpts = {req'.socket}
  /\ \A i \in 1..Len(out') : out'[i].ev # "permission-denied"

\* C15: the owner's revoke of an entry that does not exist changes no state
\* and is confirmed to the owner; the owner's grant of the rights the target
\* already holds by such a grant leaves the permission map as it is.
C15_GrantRevokeIdempotent ==
  [][\A f \in FileIds, u \in Usernames :
       /\ (OwnerRevoke(f, u) /\ Entry(f, u) = Null)
            => /\ UNCHANGED <<userSocketMap, filesByRoom, fileOwners,
                              filePermissions, sioRooms, connected>>
               /\ RevokeConfirmed
       /\ (OwnerGrant(f, u)
             /\ Entry(f, u) = [canEdit |-> RightOf(req'.arg.canEdit),
                               canDelete |-> RightOf(req'.arg.canDelete)])
            => UNCHANGED <<userSocketMap, filesByRoom, fileOwners,
                           filePermissions, sioRooms, connected>>]_vars

\* The owner has revoked another user, is told so, and is the only holder of
\* an entry on the resource.
C15_Witness ==
  /\ req.op = "revoke-permission"
  /\ CallerOwns(req.socket, req.fileId)
  /\ req.target # fileOwners[req.fileId]
  /\ DOMAIN filePermissions[req.fileId] = {fileOwners[req.fileId]}
  /\ out # <<>> /\ out[Len(out)].ev = "revoke-confirmation"

\* ---- C16
UsersOf(s) == {i \in 1..Len(userSocketMap) : userSocketMap[i].socketId = s}

\* C16: every connection is bound to at most one user, a step adds a user to
\* a connection only when it had none, and the users of a connection change
\* only in a join or a disconnect of that connection.
C16_ConnectionStateMachine ==
  /\ [](\A s \in Sockets : Cardinality(UsersOf(s)) <= 1)
  /\ [][\A s \in Sockets :
          /\ Cardinality(UsersOf(s)') > Cardinality(UsersOf(s))
               => UsersOf(s) = {} /\ req'.op = "join-request" /\ req'.socket = s
          /\ Cardinality(UsersOf(s)') < Cardinality(UsersOf(s))
               => UsersOf(s)' = {} /\ req'.op = "disconnecting" /\ req'.socket = s]_vars

\* ---- C18
RejectedJoin ==
  /\ req'.op = "join-request"
  /\ req'.roomId # NoRoom
  /\ NameTaken(req'.roomId, req'.username)

\* C18: a join whose username is taken sends username-exists to the joining
\* connection alone, acknowledges {ok: false, reason: username-exists} when an
\* acknowledgment was supplied, and delivers no user-joined and no
\* join-accepted to anyone.
C18_RejectedJoinSurfaced ==
  [][RejectedJoin
       => /\ \E i \in 1..Len(out') :
               out'[i].ev = "username-exists" /\ out'[i].rcpts = {req'.socket}
          /\ \A i \in 1..Len(out') :
               /\ out'[i].ev \notin {"user-joined", "join-accepted"}
               /\ out'[i].rcpts \subseteq {req'.socket}
          /\ req'.hasAck
               => acks' = <<[ok |-> FALSE, reason |-> "username-exists"]>>]_vars

\* A join with an acknowledgment has been rejected while the holder of the
\* username is connected in the room.
C18_Witness ==
  /\ req.op = "join-request" /\ req.hasAck
  /\ NameTaken(req.roomId, req.username)
  /\ \E c \in Sockets \ {req.socket} : Bound(c, req.roomId)
  /\ acks = <<[ok |-> FALSE, reason |-> "username-exists"]>>
  /\ \E i \in 1..Len(out) : out[i].ev = "username-exists"

\* ---- C19
Blank(raw) == \A i \in 1..Len(raw) : raw[i] = " "

MalformedJoin == req'.op = "join-request" /\ Blank(req'.arg)

MalformedCreate ==
  /\ req'.op = "file-created"
  /\ ~req'.arg.defined \/ req'.arg.id \in {NoValue, ""}

FailureAck ==
  IF req'.hasAck THEN Len(acks') = 1 /\ acks'[1].ok = FALSE ELSE acks' = <<>>

\* C19: a join whose room id is missing or blank and a create whose file or
\* file id is missing are acknowledged as failures, emit nothing, and leave
\* the registry, the file lists, the ownership map and the permission map
\* as they were.
C19_MalformedRejectedLocally ==
  [][(MalformedJoin \/ MalformedCreate)
       => /\ FailureAck
          /\ out' = <<>>
          /\ UNCHANGED <<userSocketMap, filesByRoom, fileOwners,
                         filePermissions, sioRooms>>]_vars

\* A joined user has sent a create without a file id, with an acknowledgment,
\* while another connection is in its room.
C19_Witness ==
  /\ req.op = "file-created" /\ req.hasAck
  /\ req.arg.defined /\ req.arg.id = ""
  /\ HasUser(req.socket)
  /\ \E c \in Sockets \ {req.socket} : Bound(c, getRoomId(req.socket))
  /\ acks = <<[ok |-> FALSE, reason |-> "invalid-file"]>>
  /\ out = <<>>

\* ---- C20
AckOps == {"join-request", "file-created", "file-updated", "file-deleted"}

\* C20: while a join, create, update or delete that carries an acknowledgment
\* is handled the continuation is called exactly once, whichever branch the
\* handler takes, and a request without one calls nothing.
C20_AckExactlyOnce ==
  req.op \in AckOps => Len(acks) = (IF req.hasAck THEN 1 ELSE 0)

\* A delete with an acknowledgment has been denied and acknowledged once.
C20_Witness ==
  /\ req.op = "file-deleted" /\ req.hasAck
  /\ HasUser(req.socket)
  /\ acks = <<[ok |-> FALSE, reason |-> "permission-denied"]>>

\* ---- C17
\* The join of s has put its user into the registry.
Joined(s) ==
  /\ joins[s].pc \in {"notify", "done"}
  /\ joins[s].roomId # NoRoom
  /\ joins[s].out = <<>> \/ joins[s].out[1].ev # "username-exists"

SameTarget(s, t) ==
  joins[s].roomId = joins[t].roomId /\ joins[s].username = joins[t].username

\* C17: of the joins of two connections for one username in one room, in
\* flight together, at most one puts a user into the registry, and a user is
\* inserted only while the username is still free in the room: nothing has
\* happened between the check and the insertion.
C17_ConcurrentJoinsOneWinner ==
  /\ [](\A s, t \in Sockets : (s # t /\ Joined(s) /\ Joined(t)) => ~SameTarget(s, t))
  /\ [](\A i, j \in 1..Len(userSocketMap) :
          (i # j /\ userSocketMap[i].roomId = userSocketMap[j].roomId)
            => userSocketMap[i].username # userSocketMap[j].username)
  /\ [][\A s \in Sockets :
          (joins[s].pc = "insert" /\ joins'[s].pc = "notify")
            => ~NameTaken(joins[s].roomId, joins[s].username)]_vars

\* One join is between its check and its insertion while the join of another
\* connection for the same username in the same room waits for the event loop.
C17_Witness ==
  \E s, t \in Sockets :
    /\ s # t
    /\ joins[s].pc = "insert"
    /\ joins[t].pc = "queued"
    /\ Trim(joins[t].rawRoom) = joins[s].roomId
    /\ ResolveUsername(t, joins[t].rawName) = joins[s].username

\* ---- C21
\* The connections bound to a user named username in roomId.
HoldersIn(roomId, username) ==
  {userSocketMap[i].socketId : i \in
     {k \in 1..Len(userSocketMap) :
        userSocketMap[k].roomId = roomId /\ userSocketMap[k].username = username}}

CoordinatorUnchanged ==
  UNCHANGED <<userSocketMap, filesByRoom, fileOwners, filePermissions, sioRooms>>

\* The caller resolves to a user of room r, and the recorded owner of f is
\* bound to a connection in r.
RequestToPresentOwner(f, r) ==
  /\ req'.op = "request-permission" /\ req'.fileId = f
  /\ HasUser(req'.socket) /\ getRoomId(req'.socket) = r
  /\ f \in DOMAIN fileOwners
  /\ HoldersIn(r, fileOwners[f]) # {}

\* C21: a permission request on a resource whose owner is in the requester's
\* room sends one permission-request, carrying the resource id and the
\* requester, to the owner's connection in that room and to no other, and
\* changes nothing in the registry, the maps and the file lists.
C21_RequestReachesOwner ==
  [][\A f \in FileIds, r \in RoomIds :
       RequestToPresentOwner(f, r)
         => /\ \E i \in 1..Len(out') :
                 /\ out'[i].ev = "permission-request"
                 /\ out'[i].rcpts = HoldersIn(r, fileOwners[f])
                 /\ Cardinality(out'[i].rcpts) = 1
                 /\ out'[i].payload.fileId = f
                 /\ ResolvesTo(req'.socket, out'[i].payload.requester)
                 /\ \A j \in 1..Len(out') :
                      out'[j].ev = "permission-request" => j = i
            /\ CoordinatorUnchanged]_vars

\* A user has asked the owner, who is on another connection of its room.
C21_Witness ==
  /\ req.op = "request-permission"
  /\ \E i \in 1..Len(out) :
       /\ out[i].ev = "permission-request"
       /\ out[i].rcpts # {req.socket}
       /\ out[i].rcpts = HoldersIn(getRoomId(req.socket), fileOwners[req.fileId])

\* ---- C22
RequestWithoutOwner(f) ==
  /\ req'.op = "request-permission" /\ req'.fileId = f
  /\ HasUser(req'.socket)
  /\ f \notin DOMAIN fileOwners

RequestToAbsentOwner(f) ==
  /\ req'.op = "request-permission" /\ req'.fileId = f
  /\ HasUser(req'.socket)
  /\ f \in DOMAIN fileOwners
  /\ HoldersIn(getRoomId(req'.socket), fileOwners[f]) = {}

PermissionError(reason) ==
  /\ Len(out') = 1
  /\ out'[1].ev = "permission-error"
  /\ out'[1].payload = [reason |-> reason]
  /\ out'[1].rcpts = {req'.socket}

\* C22: a permission request on a resource without an owner answers the
\* requester alone with permission-error owner-not-found, one whose owner has
\* no user in the requester's room answers owner-offline, and neither
\* changes any state.
C22_RequestErrors ==
  [][\A f \in FileIds :
       /\ RequestWithoutOwner(f)
            => PermissionError("owner-not-found") /\ CoordinatorUnchanged
       /\ RequestToAbsentOwner(f)
            => PermissionError("owner-offline") /\ CoordinatorUnchanged]_vars

\* The owner is connected in another room and the requester is told that it
\* is offline.
C22_Witness ==
  /\ req.op = "request-permission"
  /\ Len(out) = 1 /\ out[1].ev = "permission-error"
  /\ out[1].payload.reason = "owner-offline"
  /\ \E i \in 1..Len(userSocketMap) :
       /\ userSocketMap[i].username = fileOwners[req.fileId]
       /\ userSocketMap[i].socketId # req.socket

\* ---- C23
\* The step is a join of user into roomId that put the user into the registry.
SuccessfulJoin(user) ==
  /\ req'.op = "join-request"
  /\ userSocketMap' = Append(userSocketMap, user)
  /\ user.socketId = req'.socket /\ user.roomId = req'.roomId

UserJoinedTo(c, user) ==
  {i \in 1..Len(out') :
     out'[i].ev = "user-joined" /\ c \in out'[i].rcpts /\ out'[i].payload.user = user}

\* C23: a successful join acknowledges with the users of the room after the
\* join, the joiner among them, and every connection that was a member of the
\* room before the join receives exactly one user-joined carrying the new user.
C23_JoinAckAndNotice ==
  [][\A s \in Sockets, r \in RoomIds, u \in Usernames :
       SuccessfulJoin(NewUser(s, r, u))
         => /\ req'.hasAck
                 => /\ Len(acks') = 1 /\ acks'[1].ok
                    /\ acks'[1].users = getUsersInRoom(r)'
                    /\ \E i \in 1..Len(acks'[1].users) :
                         acks'[1].users[i] = NewUser(s, r, u)
            /\ \A c \in Sockets :
                 Bound(c, r) => Cardinality(UserJoinedTo(c, NewUser(s, r, u))) = 1]_vars

\* The same, for the members of the room other than the joining connection.
C23_OtherMembersNoticed ==
  [][\A s \in Sockets, r \in RoomIds, u \in Usernames :
       SuccessfulJoin(NewUser(s, r, u))
         => /\ req'.hasAck
                 => /\ Len(acks') = 1 /\ acks'[1].ok
                    /\ acks'[1].users = getUsersInRoom(r)'
            /\ \A c \in Sockets \ {s} :
                 Bound(c, r) => Cardinality(UserJoinedTo(c, NewUser(s, r, u))) = 1]_vars

\* ---- C24
FullRights == [canEdit |-> TRUE, canDelete |-> TRUE]

OwnerRecorded(f) ==
  f \in DOMAIN fileOwners' /\ (f \in DOMAIN fileOwners => fileOwners'[f] # fileOwners[f])

\* C24: while a create of a joined caller with a file id is handled, the
\* caller's username is the recorded owner of the file and holds
\* {canEdit: true, canDelete: true} on it; and whenever a step records an
\* owner, the same step gives that owner both rights.
C24_CreateSetsOwnerAndRights ==
  /\ [](ValidCreate
          => /\ req.fileId \in DOMAIN fileOwners
             /\ ResolvesTo(req.socket, fileOwners[req.fileId])
             /\ Entry(req.fileId, fileOwners[req.fileId]) = FullRights)
  /\ [][\A f \in FileIds :
          OwnerRecorded(f)
            => /\ req'.op = "file-created" /\ req'.fileId = f
               /\ \E u \in Usernames :
                    u = fileOwners'[f] /\ Entry(f, u)' = FullRights]_vars

\* A user has created a file while another connection is in its room.
C24_Witness ==
  /\ ValidCreate
  /\ \E c \in Sockets \ {req.socket} : Bound(c, getRoomId(req.socket))
  /\ FileListed(getRoomId(req.socket), req.fileId)
  /\ acks = <<[ok |-> TRUE]>>

\* ---- C25
EmptyRoom(r) == \A i \in 1..Len(userSocketMap) : userSocketMap[i].roomId # r

\* What the first user of a room that was never used is told: itself as the
\* only user, and no files.
FreshRoomState(user) == [users |-> <<user>>, files |-> <<>>]

\* C25: the first user to join a room that has no member, whatever happened
\* in the room before, is acknowledged and accepted with the users and files
\* of a room that was never used.
C25_EmptyRoomIsFresh ==
  [][\A s \in Sockets, r \in RoomIds, u \in Usernames :
       (SuccessfulJoin(NewUser(s, r, u)) /\ EmptyRoom(r))
         => /\ req'.hasAck
                 => /\ Len(acks') = 1
                    /\ acks'[1].users = FreshRoomState(NewUser(s, r, u)).users
                    /\ acks'[1].files = FreshRoomState(NewUser(s, r, u)).files
            /\ \E i \in 1..Len(out') :
                 /\ out'[i].ev = "join-accepted"
                 /\ out'[i].payload.users = FreshRoomState(NewUser(s, r, u)).users
                 /\ out'[i].payload.files = FreshRoomState(NewUser(s, r, u)).files]_vars

\* ---- C27
TypingRecorded ==
  (req.op = "typing-start" /\ HasUser(req.socket))
    => /\ getUserBySocketId(req.socket).typing
       /\ getUserBySocketId(req.socket).cursorPosition = req.arg
       /\ Len(out) = 1 /\ out[1].ev = "typing-start"
       /\ out[1].payload.user = getUserBySocketId(req.socket)

PauseRecorded ==
  (req.op = "typing-pause" /\ HasUser(req.socket))
    => /\ ~getUserBySocketId(req.socket).typing
       /\ Len(out) = 1 /\ out[1].ev = "typing-pause"
       /\ out[1].payload.user = getUserBySocketId(req.socket)

\* C27: while a typing-start of a joined connection is handled its user is
\* typing at the supplied cursor position in the registry, while a
\* typing-pause is handled its user is not typing, and the event broadcast
\* carries the user as the registry then holds it.
C27_TypingRecorded == TypingRecorded /\ PauseRecorded

\* ---- C28
\* The content stored for fileId in the file list of roomId.
StoredContent(roomId, fileId) ==
  LET list == filesByRoom[roomId]
  IN list[CHOOSE i \in 1..Len(list) : list[i].id = fileId].content

PassedUpdate == req'.op = "file-updated" /\ ~FailedUpdate

\* C28: an update that passes the edit check leaves its content stored for
\* the resource in every file list that tracks it, an update that fails the
\* check leaves every stored content as it was, and no other step but an
\* update changes the content of a resource that stays tracked.
C28_LastWriteWins ==
  [][\A r \in RoomIds, f \in FileIds :
       (FileListed(r, f) /\ FileListed(r, f)')
         => /\ (PassedUpdate /\ req'.fileId = f) => StoredContent(r, f)' = req'.arg
            /\ ~(PassedUpdate /\ req'.fileId = f)
                 => StoredContent(r, f)' = StoredContent(r, f)]_vars

\* The same for the file list of the room the updating connection is in.
C28_LastWriteWinsInCallersRoom ==
  [][\A r \in RoomIds, f \in FileIds :
       (FileListed(r, f) /\ FileListed(r, f)')
         => /\ (PassedUpdate /\ req'.fileId = f /\ getRoomId(req'.socket) = r)
                 => StoredContent(r, f)' = req'.arg
            /\ FailedUpdate => StoredContent(r, f)' = StoredContent(r, f)]_vars

\* ---- C29
\* C29: a disconnect of a connection that has no user leaves the registry,
\* the file lists, the owners and the permissions as they were and emits
\* nothing; after any disconnect the connection has no user and the
\* handler's removal applied once more removes nothing, so a second
\* disconnect is the case without a user.
C29_LeaveIdempotent ==
  [][\A s \in Sockets :
       (req'.op = "disconnecting" /\ req'.socket = s)
         => /\ ~HasUser(s) => (CoordinatorUnchanged /\ out' = <<>> /\ acks' = <<>>)
            /\ ~HasUser(s)'
            /\ RemoveSocket(s)' = userSocketMap']_vars

C29_Witness ==
  /\ req.op = "disconnecting"
  /\ ~HasUser(req.socket)
  /\ out = <<>>
  /\ userSocketMap # <<>>

\* ---- C30
\* The leaving connection was bound to a user named username in roomId.
LeavesAs(s, roomId, username) ==
  /\ req'.op = "disconnecting" /\ req'.socket = s
  /\ \E i \in 1..Len(userSocketMap) :
       userSocketMap[i] = NewUser(s, roomId, username)

JoinAs(s, roomId, username) ==
  /\ req'.op = "join-request" /\ req'.socket = s
  /\ req'.roomId = roomId /\ req'.username = username

\* C30: a processed disconnect leaves the names of the leaving connection's
\* users free in their rooms, and a join with a room id is rejected exactly
\* when a user of that name is in the room at that moment: otherwise it
\* succeeds, so a join under a name freed by a leave succeeds.
C30_RejoinAfterLeave ==
  [][\A s \in Sockets, r \in RoomIds, u \in Usernames :
       /\ LeavesAs(s, r, u) => ~NameTaken(r, u)'
       /\ (JoinAs(s, r, u) /\ NameTaken(r, u))
            => /\ userSocketMap' = userSocketMap
               /\ \E i \in 1..Len(out') : out'[i].ev = "username-exists"
       /\ (JoinAs(s, r, u) /\ ~NameTaken(r, u))
            => /\ userSocketMap' = Append(userSocketMap, NewUser(s, r, u))
               /\ \E i \in 1..Len(out') : out'[i].ev = "join-accepted"
               /\ req'.hasAck => (Len(acks') = 1 /\ acks'[1].ok)]_vars

\* A connection has just joined room r as u and is the only user; the other
\* connection is gone, and a file it created in r under the name u is still
\* listed there and owned by u.
C30_Witness ==
  \E s \in Sockets, t \in Sockets, r \in RoomIds, u \in Usernames, f \in FileIds :
    /\ s # t /\ ~connected[t]
    /\ req.op = "join-request" /\ req.socket = s
    /\ userSocketMap = <<NewUser(s, r, u)>>
    /\ FileListed(r, f)
    /\ HasOwner(f) /\ fileOwners[f] = u

\* ---- C26
\* Events of one room stand in the order the server issued them.
InIssueOrder(events) ==
  \A i \in 1..Len(events), j \in 1..Len(events) :
    (i < j /\ events[i].room \in RoomIds /\ events[i].room = events[j].room)
      => events[i].stamp < events[j].stamp

UnboundCall ==
  /\ req'.op \notin {"none", "join-request"}
  /\ ~HasUser(req'.socket)

\* C31: an event other than a join, handled for a connection that has no
\* user, leaves the registry, the file lists, the owners and the permissions
\* as they were and delivers nothing to any connection but the caller's.
C31_UnboundCallerChangesNothing ==
  [][UnboundCall
       => /\ CoordinatorUnchanged
          /\ \A i \in 1..Len(out') : out'[i].rcpts \subseteq {req'.socket}]_vars

\* A grant was handled for a connection without a user, on a file that has
\* an owner, while another connection is in a room.
C31_Witness ==
  /\ req.op = "grant-permission"
  /\ ~HasUser(req.socket)
  /\ HasOwner(req.fileId)
  /\ userSocketMap # <<>>

\* ---- C32
\* No connection has a user named username.
Absent(username) ==
  \A i \in 1..Len(userSocketMap) : userSocketMap[i].username # username

\* The caller's update of f is checked as username.
UpdateAs(f, username) ==
  /\ req'.op = "file-updated" /\ req'.fileId = f
  /\ ResolvesTo(req'.socket, username)

\* C32: a grant by the owner to a username no connection has stores the
\* entry, emits nothing but the grant-confirmation to the owner's connection,
\* and a join leaves the stored entries as they are; an update by a user of
\* that name passes the edit check exactly when the stored entry has canEdit.
C32_GrantToAbsentTarget ==
  [][\A f \in FileIds, u \in Usernames :
       /\ (OwnerGrant(f, u) /\ Absent(u))
            => /\ Entry(f, u)' = [canEdit |-> RightOf(req'.arg.canEdit),
                                  canDelete |-> RightOf(req'.arg.canDelete)]
               /\ Len(out') = 1
               /\ out'[1].ev = "grant-confirmation"
               /\ out'[1].rcpts = {req'.socket}
       /\ req'.op = "join-request" => Entry(f, u)' = Entry(f, u)
       /\ UpdateAs(f, u)
            => (out'[1].ev = "file-updated"
                  <=> (Entry(f, u) # Null /\ Entry(f, u).canEdit))]_vars

\* The owner has granted the edit right to a name that no connection has.
C32_Witness ==
  /\ req.op = "grant-permission"
  /\ CallerOwns(req.socket, req.fileId)
  /\ Absent(req.target)
  /\ Entry(req.fileId, req.target) # Null
  /\ Entry(req.fileId, req.target).canEdit
  /\ Len(out) = 1

\* ---- C33
DrawingOps == {"request-drawing", "sync-drawing", "drawing-update", "sync-file-structure"}

\* C33: while a drawing request, drawing sync, drawing update or file
\* structure sync of a connection without a user is handled, nothing is
\* delivered to any connection.
C33_DrawingNeedsUser ==
  (req.op \in DrawingOps /\ ~HasUser(req.socket))
    => \A i \in 1..Len(out) : out[i].rcpts = {}

\* ---- C34
\* The caller, in room r2, asks for an owner, edit or delete check on f,
\* which is listed in r1 and not in the caller's own room.
ForeignCall(r1, r2, f) ==
  /\ r1 # r2
  /\ FileListed(r1, f) /\ ~FileListed(r2, f)
  /\ req'.op \in {"file-updated", "file-deleted", "grant-permission", "revoke-permission"}
  /\ req'.fileId = f
  /\ HasUser(req'.socket) /\ getRoomId(req'.socket) = r2

CheckPassed ==
  \E i \in 1..Len(out') :
    out'[i].ev \in {"file-updated", "file-deleted",
                    "grant-confirmation", "revoke-confirmation"}

\* C34: a user of room r2 passes no owner, edit or delete check on a
\* resource listed in another room r1 and not in r2, whatever its username,
\* so that no file-updated or file-deleted about it is emitted into r2.
C34_RightsStayInRoom ==
  [][\A r1 \in RoomIds, r2 \in RoomIds, f \in FileIds :
       ForeignCall(r1, r2, f) => ~CheckPassed]_vars

\* ---- C35
\* The direct notices of a grant or revoke among the emits of the step.
TargetNotices ==
  {i \in 1..Len(out') : out'[i].ev \in {"permission-updated", "permission-revoked"}}

\* C35: the permission-updated or permission-revoked of a grant or revoke by
\* the owner reaches only connections whose user has the target username in
\* the owner's room, and reaches one when there is such a connection.
C35_NoticeStaysInOwnersRoom ==
  [][\A f \in FileIds, u \in Usernames, r \in RoomIds :
       ((OwnerGrant(f, u) \/ OwnerRevoke(f, u)) /\ getRoomId(req'.socket) = r)
         => /\ \A i \in TargetNotices : out'[i].rcpts \subseteq HoldersIn(r, u)
            /\ HoldersIn(r, u) # {}
                 => \E i \in TargetNotices : out'[i].rcpts # {}]_vars

\* ---- C36
StatusCall == req'.op \in {"user-offline", "user-online"}

\* The users of the registry but for their status.
Members(users) ==
  [i \in 1..Len(users) |->
     [socketId |-> users[i].socketId, roomId |-> users[i].roomId,
      username |-> users[i].username]]

\* C36: an offline or online event leaves every user that is bound to a
\* connection other than the sender's as it was, and leaves the membership
\* of every room as it was.
C36_StatusOnlyByOwnConnection ==
  [][StatusCall
       => /\ Len(userSocketMap') = Len(userSocketMap)
          /\ \A i \in 1..Len(userSocketMap) :
               userSocketMap[i].socketId # req'.socket
                 => userSocketMap'[i] = userSocketMap[i]
          /\ Members(userSocketMap') = Members(userSocketMap)]_vars

\* The part that holds: a status event never changes who is in which room.
C36_StatusKeepsMembership ==
  [][StatusCall => Members(userSocketMap') = Members(userSocketMap)]_vars

\* ---- C37
RECURSIVE SumVotes(_)
SumVotes(indexes) ==
  IF indexes = {} THEN 0
  ELSE LET i == CHOOSE j \in indexes : TRUE
       IN candidates[i].voteCount + SumVotes(indexes \ {i})

\* The votes counted, over all candidates.
TotalVotes == SumVotes(DOMAIN candidates)

Voted == {a \in Addresses : voters[a].voted}

\* The transaction is a vote of an address that has voted already.
SecondVote == call'.fn = "vote" /\ voters[call'.sender].voted

\* C37: the votes counted over all candidates are as many as the addresses
\* whose voted flag is set; a flag once set stays set, also when the
\* election is ended and started again; a vote that goes through is the
\* sender's first and adds one vote; a vote of an address that has voted
\* fails and changes no count.
C37_OneVotePerAddress ==
  /\ [](TotalVotes = Cardinality(Voted))
  /\ [][/\ \A a \in Addresses : voters[a].voted => voters'[a].voted
        /\ (call'.fn = "vote" /\ call'.ok)
             => /\ ~voters[call'.sender].voted
                /\ TotalVotes' = TotalVotes + 1
        /\ SecondVote => (~call'.ok /\ candidates' = candidates)]_vars

\* An address that has voted has tried again while the election is active,
\* after another address voted too.
C37_Witness ==
  /\ call.fn = "vote" /\ ~call.ok
  /\ voters[call.sender].voted
  /\ electionActive
  /\ call.arg \in DOMAIN candidates
  /\ TotalVotes = 2

\* ---- C38
CountsChange == \E i \in DOMAIN candidates : candidates'[i] # candidates[i]

\* The vote meets every condition of the function.
ValidVote ==
  /\ call'.fn = "vote"
  /\ electionActive
  /\ voters[call'.sender].registered
  /\ ~voters[call'.sender].voted
  /\ call'.arg \in DOMAIN candidates

AdminOnlyCall == call'.fn \in {"registerVoter", "startElection", "endElection"}

\* C38: a vote count changes only in a vote made while the election is
\* active by a registered address that has not voted, for an index of the
\* candidate list; a vote that fails one of these conditions, and a
\* registerVoter, startElection or endElection of another sender than the
\* admin, leaves the storage of the contract as it was.
C38_OnlyValidVotesCount ==
  [][/\ CountsChange => ValidVote
     /\ (call'.fn = "vote" /\ ~ValidVote) => (~call'.ok /\ Revert)
     /\ (AdminOnlyCall /\ call'.sender # admin) => (~call'.ok /\ Revert)]_vars

\* Another sender than the admin has tried to end an active election in
\* which a vote is counted.
C38_Witness ==
  /\ call.fn = "endElection" /\ call.sender # admin /\ ~call.ok
  /\ electionActive
  /\ TotalVotes >= 1

\* ---- C39
NoDuplicateIds(list) ==
  \A i \in 1..Len(list), j \in 1..Len(list) : i # j => list[i].id # list[j].id

\* A create that goes through names an id listed in the caller's room.
CreateOfListed(r, f) ==
  /\ req'.op = "file-created" /\ req'.fileId = f
  /\ HasUser(req'.socket) /\ getRoomId(req'.socket) = r
  /\ FileListed(r, f)

\* C39: no file list holds two entries with one id, and a create of an id
\* that is listed in the caller's room leaves the file lists as they were.
C39_NoDuplicateFileIds ==
  /\ [](\A r \in RoomIds : NoDuplicateIds(filesByRoom[r]))
  /\ [][\A r \in RoomIds, f \in FileIds :
          CreateOfListed(r, f) => filesByRoom' = filesByRoom]_vars

\* A create has gone through for an id whose entry in the caller's room
\* carries the content of an earlier update, not the content of the create.
C39_Witness ==
  /\ req.op = "file-created"
  /\ Len(out) = 1 /\ out[1].ev = "file-created"
  /\ FileListed(out[1].room, req.fileId)
  /\ StoredContent(out[1].room, req.fileId) # req.arg.content

====
